---- MODULE Spec2Model ----
(***************************************************************************)
(* Round logger of rsu_logger_for_rounds.py: run() folds batches of        *)
(* vehicle samples into per-round accumulators and flush_round() appends   *)
(* one membership record, one row per unit and one round-summary row.      *)
(* Times and distances are integers (seconds, metres): the sample points   *)
(* are chosen so that math.hypot is exact, and round(x, 3) leaves integer  *)
(* values unchanged.                                                       *)
(***************************************************************************)
EXTENDS Integers, Sequences, FiniteSets, TLC

\* ---------------------------------------------------------------- bounds
\* Number of loop iterations (batches) one run may take.
MaxBatches == 3

\* ------------------------------------------------------ program constants
ROUND_LENGTH == 10
\* Python None for the numeric optionals current_round, prev_t, best_d.
NoneNum == -1
\* float("inf"), the initial value of rsu_dist_min.
Inf == 1000000
\* Python None for an optional unit id.
NoRsu == "none"

\* ------------------------------------------------------------ input sets
\* Vehicle ids, and their ascending (sorted()) order.
VehOrder == <<"A", "B">>
Veh == {VehOrder[i] : i \in DOMAIN VehOrder}
\* The registry, in the iteration order of the loaded JSON object.
RSUS == << [id |-> "u0", x |-> 0, y |-> 0, radius |-> 5],
           [id |-> "u1", x |-> 6, y |-> 0, radius |-> 5] >>
RsuIds == {RSUS[i].id : i \in DOMAIN RSUS}
\* Positions a vehicle can report: at u0 only, at u1 only, out of range.
Points == { <<0, 0>>, <<6, 0>>, <<-8, 0>> }
\* Vehicle B reports from the second only, when it is active.
PointsOf(v) == IF v = "A" THEN Points ELSE { <<6, 0>> }
\* The position maps getPosition can answer with for the vehicles of S.
Positions(S) == {pos \in [S -> Points] : \A v \in S : pos[v] \in PointsOf(v)}
\* Increments of the simulation clock per simulationStep().
Deltas == {4, 12}

\* --------------------------------------------------------------- helpers
Max(a, b) == IF a >= b THEN a ELSE b
Min(a, b) == IF a <= b THEN a ELSE b

RECURSIVE SumOver(_, _)
SumOver(S, f) ==
  IF S = {} THEN 0
  ELSE LET v == CHOOSE w \in S : TRUE IN f[v] + SumOver(S \ {v}, f)

MinOver(S, f, start) ==
  IF S = {} THEN start
  ELSE Min(start, CHOOSE m \in {f[v] : v \in S} : \A w \in S : m <= f[w])

MaxOver(S, f, start) ==
  IF S = {} THEN start
  ELSE Max(start, CHOOSE m \in {f[v] : v \in S} : \A w \in S : m >= f[w])

\* sorted(list(veh_set))
SortedList(S) == SelectSeq(VehOrder, LAMBDA v : v \in S)

\* math.hypot on points whose distance is an integer.
distance(p, q) ==
  LET n == (p[1] - q[1]) * (p[1] - q[1]) + (p[2] - q[2]) * (p[2] - q[2])
      ax == IF p[1] >= q[1] THEN p[1] - q[1] ELSE q[1] - p[1]
      ay == IF p[2] >= q[2] THEN p[2] - q[2] ELSE q[2] - p[2]
  IN IF ay = 0 THEN ax
     ELSE IF ax = 0 THEN ay
     ELSE CHOOSE d \in 0..(ax + ay) : d * d = n

\* Fault injection: a vehicle at distance radius is out of range.
WithinRadiusExclusive(d, radius) == d < radius

\* if d <= rsu["radius"]
WithinRadius(d, radius) == d <= radius

\* Fault injection: a unit at the same distance replaces the current best.
CloserOrTied(d, best_d) == best_d = NoneNum \/ d <= best_d

\* if best_d is None or d < best_d
Closer(d, best_d) == best_d = NoneNum \/ d < best_d

\* The loop of pick_closest_rsu over the registry reg from index i on.
RECURSIVE PickFrom(_, _, _, _, _)
PickFrom(reg, i, p, best_rsu, best_d) ==
  IF i > Len(reg) THEN <<best_rsu, best_d>>
  ELSE LET d == distance(p, <<reg[i].x, reg[i].y>>)
       IN IF WithinRadius(d, reg[i].radius) /\ Closer(d, best_d)
          THEN PickFrom(reg, i + 1, p, reg[i].id, d)
          ELSE PickFrom(reg, i + 1, p, best_rsu, best_d)

pick_closest_rsu(x_v, y_v) == PickFrom(RSUS, 1, <<x_v, y_v>>, NoRsu, NoneNum)

\* rsu_id, d = pick_closest_rsu(x_v, y_v) for every vehicle of S.
RECURSIVE Selection(_, _)
Selection(S, pos) ==
  IF S = {} THEN << >>
  ELSE LET v == CHOOSE w \in S : TRUE
       IN (v :> pick_closest_rsu(pos[v][1], pos[v][2]))
            @@ Selection(S \ {v}, pos)

\* ----------------------------------------------------------------- state
VARIABLES
  pc,                \* "loop": in run()'s while loop; "done"; "failed"
  simTime,           \* the simulator's clock (traci.simulation.getTime())
  batches,           \* loop iterations started so far
  current_round, prev_t,
  round_membership, rsu_conn_time,
  rsu_dist_sum, rsu_dist_count, rsu_dist_min, rsu_dist_max,
  rsu_handover_in, rsu_handover_out,
  round_unique_seen, round_unique_connected, round_uncovered_vehicle_time,
  prev_assignment,
  membership_f, rsu_stats_f, round_summary_f,   \* data lines written so far
  \* history variables (not program state)
  round_batches,     \* batches received since the open round's first batch
  round_samples,     \* vehicle samples folded in since then
  round_base_t,      \* prev_t as it was before the open round's first batch
  audit,             \* per flush: the history of the round flushed
  \* analyse_membership.py: main()
  an_pc,             \* "read": in main()'s loop over the lines; "done"; "failed"
  stats_by_round, prev_assign,
  an_rsu_rows, an_round_rows,   \* data rows written so far
  an_read,           \* history: the membership records read so far
  an_events,         \* history: the handovers counted, per record and vehicle
  \* single calls of the pure functions: [in |-> input, out |-> result]
  reg_call,          \* load_and_validate_rsus
  pick_call,         \* pick_closest_rsu
  bundle_call        \* assign_disjoint_bundles

progVars == << pc, simTime, batches, current_round, prev_t,
               round_membership, rsu_conn_time,
               rsu_dist_sum, rsu_dist_count, rsu_dist_min, rsu_dist_max,
               rsu_handover_in, rsu_handover_out,
               round_unique_seen, round_unique_connected,
               round_uncovered_vehicle_time, prev_assignment,
               membership_f, rsu_stats_f, round_summary_f >>
histVars == << round_batches, round_samples, round_base_t, audit >>
anVars == << an_pc, stats_by_round, prev_assign, an_rsu_rows, an_round_rows,
             an_read, an_events >>
callVars == << reg_call, pick_call, bundle_call >>
vars == << progVars, histVars, anVars, callVars >>

\* ------------------------------------------------------------ run(): code
\* Fault injection: the first batch is credited the time since the clock's origin.
DtFromOrigin(prev, t) == IF prev = NoneNum THEN t ELSE Max(0, t - prev)

\* dt = 0.0 if prev_t is None else max(0.0, t - prev_t)
Dt(prev, t) == IF prev = NoneNum THEN 0 ELSE Max(0, t - prev)

\* r = int(t // ROUND_LENGTH)
RoundOf(t) == t \div ROUND_LENGTH

\* Fault injection: the open round is flushed at every batch.
NeedsFlushEveryBatch(cur, r) == cur # NoneNum

\* elif r != current_round: the open round is flushed
NeedsFlush(cur, r) == cur # NoneNum /\ r # cur

\* if current_round is None / elif r != current_round: accumulators reset
NeedsReset(cur, r) == cur = NoneNum \/ r # cur

\* Fault injection: no flush after the loop.
FinalFlushNever(cur) == FALSE

\* if current_round is not None: flush_round(current_round)
FinalFlushDue(cur) == cur # NoneNum

\* The round accumulators as one record.
Acc ==
  [ round_membership |-> round_membership,
    rsu_conn_time |-> rsu_conn_time,
    rsu_dist_sum |-> rsu_dist_sum,
    rsu_dist_count |-> rsu_dist_count,
    rsu_dist_min |-> rsu_dist_min,
    rsu_dist_max |-> rsu_dist_max,
    rsu_handover_in |-> rsu_handover_in,
    rsu_handover_out |-> rsu_handover_out,
    round_unique_seen |-> round_unique_seen,
    round_unique_connected |-> round_unique_connected,
    round_uncovered_vehicle_time |-> round_uncovered_vehicle_time ]

\* Fault injection: the reset leaves round_membership as it is.
ResetKeepsMembership ==
  [ round_membership |-> round_membership,
    rsu_conn_time |-> [u \in RsuIds |-> 0],
    rsu_dist_sum |-> [u \in RsuIds |-> 0],
    rsu_dist_count |-> [u \in RsuIds |-> 0],
    rsu_dist_min |-> [u \in RsuIds |-> Inf],
    rsu_dist_max |-> [u \in RsuIds |-> 0],
    rsu_handover_in |-> [u \in RsuIds |-> 0],
    rsu_handover_out |-> [u \in RsuIds |-> 0],
    round_unique_seen |-> {},
    round_unique_connected |-> {},
    round_uncovered_vehicle_time |-> 0 ]

reset_round_accumulators ==
  [ round_membership |-> [u \in RsuIds |-> {}],
    rsu_conn_time |-> [u \in RsuIds |-> 0],
    rsu_dist_sum |-> [u \in RsuIds |-> 0],
    rsu_dist_count |-> [u \in RsuIds |-> 0],
    rsu_dist_min |-> [u \in RsuIds |-> Inf],
    rsu_dist_max |-> [u \in RsuIds |-> 0],
    rsu_handover_in |-> [u \in RsuIds |-> 0],
    rsu_handover_out |-> [u \in RsuIds |-> 0],
    round_unique_seen |-> {},
    round_unique_connected |-> {},
    round_uncovered_vehicle_time |-> 0 ]

\* Fault injection: round_unique_connected.add runs before the `is None` test.
ConnectedAddAll(S, sel) == S

\* The vehicles of S that pass `if rsu_id is None: ... continue`.
ConnectedAdd(S, sel) == {v \in S : sel[v][1] # NoRsu}

\* Fault injection: round_uncovered_vehicle_time += dt runs for every vehicle.
UncoveredAddAll(S, sel) == S

\* The vehicles of S for which `if rsu_id is None` holds.
UncoveredAdd(S, sel) == {v \in S : sel[v][1] = NoRsu}

\* The vehicles of S added to round_membership[u].
MembershipAdd(S, sel, u) == {v \in S : sel[v][1] = u}

\* Fault injection: the test does not compare the two units.
IsHandoverAnyPair(prev_rsu, rsu_id) == prev_rsu # NoRsu /\ rsu_id # NoRsu

\* if prev_rsu is not None and rsu_id is not None and prev_rsu != rsu_id
IsHandover(prev_rsu, rsu_id) ==
  prev_rsu # NoRsu /\ rsu_id # NoRsu /\ prev_rsu # rsu_id

\* The body of `for veh_id in veh_ids` run for the vehicles of S (each id
\* occurs once in a batch, so the iterations commute); seenOnly are ids for
\* which only round_unique_seen.add ran.
Fold(acc, S, seenOnly, sel, dt, prevA) ==
  LET dist == [v \in S |-> sel[v][2]]
      at(u) == MembershipAdd(S, sel, u)
  IN [ round_unique_seen |-> acc.round_unique_seen \cup S \cup seenOnly,
       round_membership |->
         [u \in RsuIds |-> acc.round_membership[u] \cup at(u)],
       round_unique_connected |->
         acc.round_unique_connected \cup ConnectedAdd(S, sel),
       rsu_conn_time |->
         [u \in RsuIds |-> acc.rsu_conn_time[u] + dt * Cardinality(at(u))],
       rsu_dist_sum |->
         [u \in RsuIds |-> acc.rsu_dist_sum[u] + SumOver(at(u), dist)],
       rsu_dist_count |->
         [u \in RsuIds |-> acc.rsu_dist_count[u] + Cardinality(at(u))],
       rsu_dist_min |->
         [u \in RsuIds |-> MinOver(at(u), dist, acc.rsu_dist_min[u])],
       rsu_dist_max |->
         [u \in RsuIds |-> MaxOver(at(u), dist, acc.rsu_dist_max[u])],
       rsu_handover_in |->
         [u \in RsuIds |-> acc.rsu_handover_in[u]
            + Cardinality({v \in at(u) : IsHandover(prevA[v], u)})],
       rsu_handover_out |->
         [u \in RsuIds |-> acc.rsu_handover_out[u]
            + Cardinality({v \in S : prevA[v] = u
                                      /\ IsHandover(u, sel[v][1])})],
       round_uncovered_vehicle_time |->
         acc.round_uncovered_vehicle_time
           + dt * Cardinality(UncoveredAdd(S, sel)) ]

\* --------------------------------------------------- flush_round(r): code
MembershipPayload(r) ==
  [ round |-> r, t_start |-> r * ROUND_LENGTH, t_end |-> (r + 1) * ROUND_LENGTH,
    rsus |-> [u \in RsuIds |-> SortedList(round_membership[u])] ]

\* round(avg_dist, 3), in thousandths.
AvgDist3(sum, count) == (2000 * sum + count) \div (2 * count)

RsuRow(r, u) ==
  [ round |-> r, t_start |-> r * ROUND_LENGTH, t_end |-> (r + 1) * ROUND_LENGTH,
    rsu_id |-> u,
    unique_vehicles |-> Cardinality(round_membership[u]),
    total_connected_time_s |-> rsu_conn_time[u],
    avg_dist |-> IF rsu_dist_count[u] > 0
                 THEN AvgDist3(rsu_dist_sum[u], rsu_dist_count[u]) ELSE NoneNum,
    min_dist |-> IF rsu_dist_count[u] > 0 THEN rsu_dist_min[u] ELSE NoneNum,
    max_dist |-> IF rsu_dist_count[u] > 0 THEN rsu_dist_max[u] ELSE NoneNum,
    handover_in |-> rsu_handover_in[u],
    handover_out |-> rsu_handover_out[u] ]

RsuRows(r) == [i \in DOMAIN RSUS |-> RsuRow(r, RSUS[i].id)]

RoundRow(r) ==
  [ round |-> r, t_start |-> r * ROUND_LENGTH, t_end |-> (r + 1) * ROUND_LENGTH,
    unique_vehicles_seen |-> Cardinality(round_unique_seen),
    unique_connected_vehicles |-> Cardinality(round_unique_connected),
    uncovered_vehicle_time_s |-> round_uncovered_vehicle_time ]

\* What the history variables say of the round being flushed.
AuditEntry(r) ==
  [ round |-> r, batches |-> round_batches, samples |-> round_samples,
    base_t |-> round_base_t ]

\* The three files and the audit after flush_round(r), if `due`.
Flushed(due, r) ==
  [ membership_f |-> IF due THEN Append(membership_f, MembershipPayload(r))
                     ELSE membership_f,
    rsu_stats_f |-> IF due THEN rsu_stats_f \o RsuRows(r) ELSE rsu_stats_f,
    round_summary_f |-> IF due THEN Append(round_summary_f, RoundRow(r))
                        ELSE round_summary_f,
    audit |-> IF due THEN Append(audit, AuditEntry(r)) ELSE audit ]

\* Fault injection: a result of none leaves the stored unit in place.
NextAssignmentKeepsUnit(prevA, S, sel) ==
  [v \in Veh |-> IF v \in S /\ sel[v][1] # NoRsu THEN sel[v][1] ELSE prevA[v]]

\* prev_assignment[veh_id] = rsu_id, for the vehicles of S.
NextAssignment(prevA, S, sel) ==
  [v \in Veh |-> IF v \in S THEN sel[v][1] ELSE prevA[v]]

\* ------------------------------------------------------------------ Init
\* The analyzer before main() is called.
AnalyzerIdle ==
  /\ an_pc = "idle"
  /\ stats_by_round = << >>
  /\ prev_assign = << >>
  /\ an_rsu_rows = << >>
  /\ an_round_rows = << >>
  /\ an_read = << >>
  /\ an_events = {}

\* No call of a pure function under way.
CallsIdle ==
  /\ reg_call = [in |-> "none", out |-> "none"]
  /\ pick_call = [in |-> "none", out |-> "none"]
  /\ bundle_call = [in |-> "none", out |-> "none"]

\* run() before its while loop.
LoggerStart ==
  /\ pc = "loop"
  /\ simTime = 0
  /\ batches = 0
  /\ current_round = NoneNum
  /\ prev_t = NoneNum
  /\ round_membership = [u \in RsuIds |-> {}]
  /\ rsu_conn_time = [u \in RsuIds |-> 0]
  /\ rsu_dist_sum = [u \in RsuIds |-> 0]
  /\ rsu_dist_count = [u \in RsuIds |-> 0]
  /\ rsu_dist_min = [u \in RsuIds |-> Inf]
  /\ rsu_dist_max = [u \in RsuIds |-> 0]
  /\ rsu_handover_in = [u \in RsuIds |-> 0]
  /\ rsu_handover_out = [u \in RsuIds |-> 0]
  /\ round_unique_seen = {}
  /\ round_unique_connected = {}
  /\ round_uncovered_vehicle_time = 0
  /\ prev_assignment = [v \in Veh |-> NoRsu]
  /\ membership_f = << >>
  /\ rsu_stats_f = << >>
  /\ round_summary_f = << >>
  /\ round_batches = {}
  /\ round_samples = {}
  /\ round_base_t = NoneNum
  /\ audit = << >>

Init == LoggerStart /\ AnalyzerIdle /\ CallsIdle

\* --------------------------------------------------------------- actions
\* One iteration of the while loop from simulationStep() on, with the clock
\* advancing by delta; the for loop runs for the vehicles of S at positions
\* pos, seenOnly holds the id whose getPosition raised (if any), and the
\* iteration ends in nextpc.
LoopBody(delta, ids, S, seenOnly, pos, nextpc) ==
  LET t == simTime + delta
      dt == Dt(prev_t, t)
      r == RoundOf(t)
      base == IF NeedsReset(current_round, r)
              THEN reset_round_accumulators ELSE Acc
      opens == prev_t = NoneNum \/ RoundOf(prev_t) # r
      batch == [t |-> t, dt |-> dt, ids |-> ids]
  IN /\ pc = "loop"
     /\ batches < MaxBatches
     /\ \E sel \in {Selection(S, pos)} :
        \E new \in {Fold(base, S, seenOnly, sel, dt, prev_assignment)} :
        \E out \in {Flushed(NeedsFlush(current_round, r), current_round)} :
        LET samples ==
              {[veh |-> v, t |-> t, dt |-> dt, rsu |-> sel[v][1],
                d |-> sel[v][2], prev |-> prev_assignment[v]] : v \in S}
        IN
           /\ pc' = nextpc
           /\ simTime' = t
           /\ batches' = batches + 1
           /\ prev_t' = t
           /\ current_round' = r
           /\ membership_f' = out.membership_f
           /\ rsu_stats_f' = out.rsu_stats_f
           /\ round_summary_f' = out.round_summary_f
           /\ audit' = out.audit
           /\ round_membership' = new.round_membership
           /\ rsu_conn_time' = new.rsu_conn_time
           /\ rsu_dist_sum' = new.rsu_dist_sum
           /\ rsu_dist_count' = new.rsu_dist_count
           /\ rsu_dist_min' = new.rsu_dist_min
           /\ rsu_dist_max' = new.rsu_dist_max
           /\ rsu_handover_in' = new.rsu_handover_in
           /\ rsu_handover_out' = new.rsu_handover_out
           /\ round_unique_seen' = new.round_unique_seen
           /\ round_unique_connected' = new.round_unique_connected
           /\ round_uncovered_vehicle_time' = new.round_uncovered_vehicle_time
           /\ prev_assignment' = NextAssignment(prev_assignment, S, sel)
           /\ round_batches' = IF opens THEN {batch} ELSE round_batches \cup {batch}
           /\ round_samples' = IF opens THEN samples ELSE round_samples \cup samples
           /\ round_base_t' = IF opens THEN (IF prev_t = NoneNum THEN t ELSE prev_t)
                              ELSE round_base_t
           /\ UNCHANGED << anVars, callVars >>

\* A complete iteration: getIDList() returns ids, every getPosition answers.
Step(delta, ids, pos) == LoopBody(delta, ids, ids, {}, pos, "loop")

\* getMinExpectedNumber() or simulationStep() raises: nothing has changed.
SimulationStepRaises ==
  /\ pc = "loop"
  /\ batches < MaxBatches
  /\ pc' = "failed"
  /\ UNCHANGED << simTime, batches, current_round, prev_t,
                  round_membership, rsu_conn_time,
                  rsu_dist_sum, rsu_dist_count, rsu_dist_min, rsu_dist_max,
                  rsu_handover_in, rsu_handover_out,
                  round_unique_seen, round_unique_connected,
                  round_uncovered_vehicle_time, prev_assignment,
                  membership_f, rsu_stats_f, round_summary_f, histVars,
                  anVars, callVars >>

\* simulationStep() advanced the clock, getTime() raises.
GetTimeRaises(delta) ==
  /\ pc = "loop"
  /\ batches < MaxBatches
  /\ pc' = "failed"
  /\ simTime' = simTime + delta
  /\ batches' = batches + 1
  /\ UNCHANGED << current_round, prev_t,
                  round_membership, rsu_conn_time,
                  rsu_dist_sum, rsu_dist_count, rsu_dist_min, rsu_dist_max,
                  rsu_handover_in, rsu_handover_out,
                  round_unique_seen, round_unique_connected,
                  round_uncovered_vehicle_time, prev_assignment,
                  membership_f, rsu_stats_f, round_summary_f, histVars,
                  anVars, callVars >>

\* getIDList() raises, after the round bookkeeping of the iteration.
GetIDListRaises(delta) ==
  LoopBody(delta, {}, {}, {}, << >>, "failed")

\* getPosition(bad) raises after the vehicles of done were folded in.
GetPositionRaises(delta, ids, done, bad, pos) ==
  LoopBody(delta, ids, done, {bad}, pos, "failed")

\* getMinExpectedNumber() = 0: the loop ends, the open round is flushed and
\* the files are closed.
Finish ==
  LET out == Flushed(FinalFlushDue(current_round), current_round)
  IN /\ pc = "loop"
     /\ pc' = "done"
     /\ membership_f' = out.membership_f
     /\ rsu_stats_f' = out.rsu_stats_f
     /\ round_summary_f' = out.round_summary_f
     /\ audit' = out.audit
     /\ UNCHANGED << simTime, batches, current_round, prev_t,
                     round_membership, rsu_conn_time,
                     rsu_dist_sum, rsu_dist_count, rsu_dist_min, rsu_dist_max,
                     rsu_handover_in, rsu_handover_out,
                     round_unique_seen, round_unique_connected,
                     round_uncovered_vehicle_time, prev_assignment,
                     round_batches, round_samples, round_base_t,
                     anVars, callVars >>

Next ==
  \/ \E delta \in Deltas, ids \in SUBSET Veh :
        \E pos \in Positions(ids) : Step(delta, ids, pos)
  \/ SimulationStepRaises
  \/ \E delta \in Deltas : GetTimeRaises(delta)
  \/ \E delta \in Deltas : GetIDListRaises(delta)
  \/ \E delta \in Deltas, ids \in SUBSET Veh :
        \E bad \in ids : \E done \in SUBSET (ids \ {bad}) :
           \E pos \in Positions(done) :
              GetPositionRaises(delta, ids, done, bad, pos)
  \/ Finish

Spec == Init /\ [][Next]_vars

\* ======================================================== analyzer model
\* analyse_membership.py: main() reads the membership log line by line, looks
\* the round up in the stats loaded by load_stats_by_round, and writes one
\* round-summary row and one row per unit for every record.

\* Number of membership records (and of rounds in the stats log).
MaxLines == 3

\* The "" that csv writes for a scalar missing from the stats.
EmptyCell == -2

\* Key order of the "rsus" object of a membership record.
RsuKeys == [i \in DOMAIN RSUS |-> RSUS[i].id]

SeqRange(q) == {q[k] : k \in DOMAIN q}

\* d.get(k, default)
DictGet(d, k, default) == IF k \in DOMAIN d THEN d[k] ELSE default

\* A stats line with every field, and one that lacks fields.
StatsFull(r) ==
  [ round |-> r, vehicles_seen_count |-> 10 + r,
    vehicles_connected_count |-> 20 + r, uncovered_vehicle_time_s |-> 30 + r,
    rsu_total_connected_time_s |-> [u0 |-> 40 + r, u1 |-> 50 + r] ]
StatsPartial(r) ==
  [ round |-> r, vehicles_connected_count |-> 20 + r,
    rsu_total_connected_time_s |-> [u0 |-> 40 + r] ]

\* The stats log that holds, for the rounds from r on, the lines c chooses.
RECURSIVE StatsFileOf(_, _)
StatsFileOf(c, r) ==
  IF r >= MaxLines THEN << >>
  ELSE (CASE c[r] = "full" -> << StatsFull(r) >>
          [] c[r] = "partial" -> << StatsPartial(r) >>
          [] OTHER -> << >>) \o StatsFileOf(c, r + 1)

\* The shapes a round's stats can have, and the stats logs read: the logs in
\* which the shapes of successive rounds rotate, from any first shape, and the
\* logs with one shape throughout.
StatsShapes == << "absent", "full", "partial" >>

StatsFiles ==
  {StatsFileOf([r \in 0..(MaxLines - 1) |->
                  StatsShapes[((r + k) % Len(StatsShapes)) + 1]], 0)
     : k \in DOMAIN StatsShapes}
  \cup {StatsFileOf([r \in 0..(MaxLines - 1) |-> sh], 0)
          : sh \in {"absent", "full", "partial"}}

\* The loop of load_stats_by_round over the lines from index i on.
RECURSIVE LoadFrom(_, _, _)
LoadFrom(lines, i, by_round) ==
  IF i > Len(lines) THEN by_round
  ELSE LoadFrom(lines, i + 1, (lines[i].round :> lines[i]) @@ by_round)

load_stats_by_round(lines) == LoadFrom(lines, 1, << >>)

\* The membership records a log can hold for round r: every assignment of
\* the vehicles to one unit or to none, in the format flush_round writes.
MembershipLines(r) ==
  { [ round |-> r, t_start |-> r * ROUND_LENGTH,
      t_end |-> (r + 1) * ROUND_LENGTH,
      rsus |-> [u \in RsuIds |-> SortedList({v \in Veh : a[v] = u})] ]
    : a \in [Veh -> RsuIds \cup {NoRsu}] }

\* out[v] = rsu_id, for the units in key order: the last unit listing v wins.
invert_membership(rsus) ==
  LET listed == UNION {SeqRange(rsus[u]) : u \in DOMAIN rsus}
      last(v) == CHOOSE i \in DOMAIN RsuKeys :
                   /\ v \in SeqRange(rsus[RsuKeys[i]])
                   /\ \A j \in DOMAIN RsuKeys :
                        j > i => v \notin SeqRange(rsus[RsuKeys[j]])
  IN [v \in listed |-> RsuKeys[last(v)]]

\* Fault injection: stats_by_round[r], which raises on an absent round.
StatsLookupStrict(by_round, r) == r \notin DOMAIN by_round

\* stats_by_round.get(r, {}) has a default: the lookup never raises.
StatsLookupRaises(by_round, r) == FALSE

\* Fault injection: the test does not compare the two units.
AnHandoverAnyPair(prev, curr) == prev # NoRsu /\ curr # NoRsu

\* if prev is not None and curr is not None and prev != curr
AnHandover(prev, curr) == prev # NoRsu /\ curr # NoRsu /\ prev # curr

\* Fault injection: a vehicle absent from the record keeps its assignment.
NextPrevAssignStale(all_vehs, curr_assign, prev) ==
  [v \in all_vehs |-> DictGet(curr_assign, v, DictGet(prev, v, NoRsu))]

\* prev_assign = {v: curr_assign.get(v) for v in all_vehs}
NextPrevAssign(all_vehs, curr_assign, prev) ==
  [v \in all_vehs |-> DictGet(curr_assign, v, NoRsu)]

\* The body of the loop of main() for one membership record.
AnProcess(rec, by_round, prev) ==
  LET r == rec.round
      stats == DictGet(by_round, r, << >>)
      rsu_time == DictGet(stats, "rsu_total_connected_time_s", << >>)
      curr_assign == invert_membership(rec.rsus)
      all_vehs == DOMAIN curr_assign \cup DOMAIN prev
      moved == {v \in all_vehs :
                  AnHandover(DictGet(prev, v, NoRsu),
                             DictGet(curr_assign, v, NoRsu))}
  IN [ round_row |->
         [ round |-> r, t_start |-> rec.t_start, t_end |-> rec.t_end,
           vehicles_seen_count |->
             DictGet(stats, "vehicles_seen_count", EmptyCell),
           vehicles_connected_count |->
             DictGet(stats, "vehicles_connected_count", EmptyCell),
           uncovered_vehicle_time_s |->
             DictGet(stats, "uncovered_vehicle_time_s", EmptyCell) ],
       rsu_rows |->
         [ i \in DOMAIN RsuKeys |->
           [ round |-> r, t_start |-> rec.t_start, t_end |-> rec.t_end,
             rsu_id |-> RsuKeys[i],
             unique_vehicles |-> Len(rec.rsus[RsuKeys[i]]),
             total_connected_time_s |-> DictGet(rsu_time, RsuKeys[i], EmptyCell),
             handover_in |->
               Cardinality({v \in moved : curr_assign[v] = RsuKeys[i]}),
             handover_out |->
               Cardinality({v \in moved : prev[v] = RsuKeys[i]}) ] ],
       prev_assign |-> NextPrevAssign(all_vehs, curr_assign, prev),
       events |-> {[veh |-> v, from |-> prev[v], to |-> curr_assign[v]]
                     : v \in moved} ]

\* main() after load_stats_by_round, before the first membership line.
AnInit ==
  /\ LoggerStart
  /\ CallsIdle
  /\ an_pc = "read"
  /\ stats_by_round \in {load_stats_by_round(f) : f \in StatsFiles}
  /\ prev_assign = << >>
  /\ an_rsu_rows = << >>
  /\ an_round_rows = << >>
  /\ an_read = << >>
  /\ an_events = {}

\* One pass of `for line in f` with the record rec on the line.
AnReadLine(rec) ==
  /\ an_pc = "read"
  /\ Len(an_read) < MaxLines
  /\ IF StatsLookupRaises(stats_by_round, rec.round)
     THEN /\ an_pc' = "failed"
          /\ UNCHANGED << stats_by_round, prev_assign, an_rsu_rows,
                          an_round_rows, an_read, an_events >>
     ELSE \E res \in {AnProcess(rec, stats_by_round, prev_assign)} :
          /\ an_round_rows' = Append(an_round_rows, res.round_row)
          /\ an_rsu_rows' = an_rsu_rows \o res.rsu_rows
          /\ prev_assign' = res.prev_assign
          /\ an_read' = Append(an_read, rec)
          /\ an_events' = an_events \cup
               {[i |-> Len(an_read) + 1, veh |-> e.veh, from |-> e.from,
                 to |-> e.to] : e \in res.events}
          /\ UNCHANGED << an_pc, stats_by_round >>
  /\ UNCHANGED << progVars, histVars, callVars >>

\* The membership log is exhausted: main() returns.
AnEnd ==
  /\ an_pc = "read"
  /\ an_pc' = "done"
  /\ UNCHANGED << stats_by_round, prev_assign, an_rsu_rows, an_round_rows,
                  an_read, an_events, progVars, histVars, callVars >>

AnNext ==
  \/ \E rec \in MembershipLines(Len(an_read)) : AnReadLine(rec)
  \/ AnEnd

SpecAn == AnInit /\ [][AnNext]_vars

\* ================================================= registry validation
\* load_and_validate_rsus on the value json.load returns. A JSON value is a
\* record with its Python type; numbers carry their value.
JInt(n) == [type |-> "int", val |-> n]
JFloat(n) == [type |-> "float", val |-> n]
JBool(b) == [type |-> "bool", val |-> IF b THEN 1 ELSE 0]
JStr == [type |-> "str"]
\* float('nan'), which json.load reads from the literal NaN.
JNaN == [type |-> "nan"]
Missing == [type |-> "missing"]

CfgKeys == <<"x", "y", "radius">>

\* The object with the keys whose value is not Missing.
CfgObject(x, y, radius) ==
  LET c == [x |-> x, y |-> y, radius |-> radius]
  IN [ type |-> "object",
       fields |-> [k \in {k \in {"x", "y", "radius"} : c[k] # Missing} |-> c[k]] ]

XValues == {Missing, JInt(0), JBool(TRUE), JStr}
YValues == {Missing, JInt(6), JFloat(1)}
RadiusValues ==
  {Missing, JInt(5), JInt(0), JInt(-1), JFloat(5), JBool(TRUE), JStr, JNaN}

\* The values an entry of the file can map a unit id to.
CfgValues ==
  {JStr} \cup
  {CfgObject(x, y, radius) : x \in XValues, y \in YValues, radius \in RadiusValues}

\* The values json.load can return: not an object, the empty object, and the
\* objects with one or two entries (in file order).
RegistryFiles ==
  { [type |-> "list"], [type |-> "null"], [type |-> "object", items |-> << >>] }
  \cup { [type |-> "object", items |-> << [id |-> "u0", cfg |-> c] >>]
           : c \in CfgValues }
  \cup { [type |-> "object",
          items |-> << [id |-> "u1", cfg |-> c], [id |-> "u0", cfg |-> d] >>]
           : c \in CfgValues, d \in CfgValues }

\* isinstance(v, (int, float)): bool is a subclass of int, nan is a float.
IsIntOrFloat(v) == v.type \in {"int", "float", "bool", "nan"}

\* v <= 0: every comparison with nan is False.
LeqZero(v) == v.type # "nan" /\ v.val <= 0

Raised(id, field) == [kind |-> "raised", id |-> id, field |-> field]

\* `for k in ("x", "y", "radius")` from index j on, then the radius test.
RECURSIVE ValidateKeys(_, _, _)
ValidateKeys(id, fields, j) ==
  IF j > Len(CfgKeys)
  THEN IF LeqZero(fields["radius"]) THEN Raised(id, "radius")
       ELSE [kind |-> "ok"]
  ELSE IF CfgKeys[j] \notin DOMAIN fields THEN Raised(id, CfgKeys[j])
  ELSE IF ~IsIntOrFloat(fields[CfgKeys[j]]) THEN Raised(id, CfgKeys[j])
  ELSE ValidateKeys(id, fields, j + 1)

\* `for rsu_id, cfg in rsus.items()` from index i on, then `return rsus`.
RECURSIVE ValidateItems(_, _)
ValidateItems(rsus, i) ==
  IF i > Len(rsus.items) THEN [kind |-> "returned", value |-> rsus]
  ELSE IF rsus.items[i].cfg.type # "object"
       THEN Raised(rsus.items[i].id, "none")
  ELSE LET res == ValidateKeys(rsus.items[i].id, rsus.items[i].cfg.fields, 1)
       IN IF res.kind = "raised" THEN res ELSE ValidateItems(rsus, i + 1)

load_and_validate_rsus(rsus) ==
  IF rsus.type # "object" \/ rsus.items = << >> THEN Raised("none", "none")
  ELSE ValidateItems(rsus, 1)

\* The module is about to be imported with some registry file.
RegInit ==
  /\ LoggerStart
  /\ AnalyzerIdle
  /\ reg_call \in {[in |-> f, out |-> [kind |-> "pending"]] : f \in RegistryFiles}
  /\ pick_call = [in |-> "none", out |-> "none"]
  /\ bundle_call = [in |-> "none", out |-> "none"]

\* RSUS = load_and_validate_rsus(RSU_FILE) at import: when it raises, the
\* import fails and run() is never called.
LoadRegistry ==
  /\ reg_call.out.kind = "pending"
  /\ \E res \in {load_and_validate_rsus(reg_call.in)} :
       /\ reg_call' = [reg_call EXCEPT !.out = res]
       /\ pc' = IF res.kind = "raised" THEN "failed" ELSE pc
  /\ UNCHANGED << simTime, batches, current_round, prev_t, round_membership,
                  rsu_conn_time, rsu_dist_sum, rsu_dist_count, rsu_dist_min,
                  rsu_dist_max, rsu_handover_in, rsu_handover_out,
                  round_unique_seen, round_unique_connected,
                  round_uncovered_vehicle_time, prev_assignment, membership_f,
                  rsu_stats_f, round_summary_f, histVars, anVars, pick_call,
                  bundle_call >>

RegNext == LoadRegistry

SpecReg == RegInit /\ [][RegNext]_vars

\* ======================================================== dataset bundles
\* vehicle_bundle_prep.py: assign_disjoint_bundles.
MaxDataset == 4
MaxBundle == 2

\* The lists collect_all_vehicles returns: sorted, without repetition.
VehIdLists == {<< >>, << "A" >>, << "A", "B" >>}

\* The orders rng.shuffle can leave list(range(dataset_size)) in.
Shuffles(dataset_size) ==
  {p \in [1..dataset_size -> 0..(dataset_size - 1)] :
     \A i \in 1..dataset_size, j \in 1..dataset_size : i # j => p[i] # p[j]}

\* indices[lo:hi] for 0 <= lo <= hi: a slice is clamped to the list.
Slice(indices, lo, hi) ==
  IF lo >= Len(indices) THEN << >>
  ELSE SubSeq(indices, lo + 1, Min(hi, Len(indices)))

\* Fault injection: the cursor is not advanced.
CursorStuck(cursor, bundle_size) == cursor

\* cursor += bundle_size
CursorAfter(cursor, bundle_size) == cursor + bundle_size

\* `for v in veh_ids` from index j on.
RECURSIVE AssignFrom(_, _, _, _, _, _)
AssignFrom(veh_ids, j, indices, bundle_size, cursor, bundles) ==
  IF j > Len(veh_ids) THEN bundles
  ELSE AssignFrom(veh_ids, j + 1, indices, bundle_size,
                  CursorAfter(cursor, bundle_size),
                  (veh_ids[j] :> Slice(indices, cursor, cursor + bundle_size))
                    @@ bundles)

\* The results of assign_disjoint_bundles, one for each shuffle order.
assign_disjoint_bundles(veh_ids, dataset_size, bundle_size) ==
  IF Len(veh_ids) * bundle_size > dataset_size THEN {[kind |-> "raised"]}
  ELSE {[kind |-> "returned",
         bundles |-> AssignFrom(veh_ids, 1, indices, bundle_size, 0, << >>)]
          : indices \in Shuffles(dataset_size)}

\* assign_disjoint_bundles is about to be called.
BundleInit ==
  /\ LoggerStart
  /\ AnalyzerIdle
  /\ reg_call = [in |-> "none", out |-> "none"]
  /\ pick_call = [in |-> "none", out |-> "none"]
  /\ bundle_call \in
       {[in |-> [veh_ids |-> l, dataset_size |-> n, bundle_size |-> b],
         out |-> [kind |-> "pending"]]
          : l \in VehIdLists, n \in 0..MaxDataset, b \in 0..MaxBundle}

AssignBundles ==
  /\ bundle_call.out.kind = "pending"
  /\ \E res \in assign_disjoint_bundles(bundle_call.in.veh_ids,
                                        bundle_call.in.dataset_size,
                                        bundle_call.in.bundle_size) :
       bundle_call' = [bundle_call EXCEPT !.out = res]
  /\ UNCHANGED << progVars, histVars, anVars, reg_call, pick_call >>

BundleNext == AssignBundles

SpecBundle == BundleInit /\ [][BundleNext]_vars

\* ==================================================== proximity selection
\* pick_closest_rsu on other registries than RSUS: any units of the pool, in
\* any file order, each with one of two radii.
UnitPool ==
  << [id |-> "u0", x |-> 0, y |-> 0], [id |-> "u1", x |-> 6, y |-> 0],
     [id |-> "u2", x |-> 3, y |-> 0] >>

Radii == {1, 5}

\* The orders in which a file can list one or more units of the pool.
UnitOrders ==
  UNION { {o \in [1..n -> DOMAIN UnitPool] :
             \A i \in 1..n, j \in 1..n : i # j => o[i] # o[j]}
          : n \in 1..Len(UnitPool) }

Registries ==
  UNION { { [k \in DOMAIN o |->
               [ id |-> UnitPool[o[k]].id, x |-> UnitPool[o[k]].x,
                 y |-> UnitPool[o[k]].y, radius |-> r[k] ]]
            : r \in [DOMAIN o -> Radii] }
          : o \in UnitOrders }

\* Vehicle positions: on the line of the units, and off it at equal distance
\* from two units.
PickPoints == {<<x, 0>> : x \in (-3)..9} \cup {<<3, 4>>, <<3, -4>>}

\* pick_closest_rsu is about to be called with some registry loaded.
PickInit ==
  /\ LoggerStart
  /\ AnalyzerIdle
  /\ reg_call = [in |-> "none", out |-> "none"]
  /\ bundle_call = [in |-> "none", out |-> "none"]
  /\ pick_call \in {[in |-> [reg |-> reg, p |-> p], out |-> [kind |-> "pending"]]
                      : reg \in Registries, p \in PickPoints}

\* rsu_id, d = pick_closest_rsu(x_v, y_v)
Pick ==
  /\ pick_call.out.kind = "pending"
  /\ \E res \in {PickFrom(pick_call.in.reg, 1, pick_call.in.p, NoRsu, NoneNum)} :
       pick_call' = [pick_call EXCEPT
                       !.out = [kind |-> "returned", rsu |-> res[1], d |-> res[2]]]
  /\ UNCHANGED << progVars, histVars, anVars, reg_call, bundle_call >>

PickNext == Pick

SpecPick == PickInit /\ [][PickNext]_vars

\* ================================================================ claims
\* Reading the history: the samples of a set, by vehicle and by unit.
Vehs(samples) == {s.veh : s \in samples}
InRange(samples) == {s \in samples : s.rsu # NoRsu}
AtUnit(samples, u) == {s \in samples : s.rsu = u}
OfVeh(samples, v) == {s \in samples : s.veh = v}
DtSum(samples) == SumOver(samples, [s \in samples |-> s.dt])
Listed(rec, u) == {rec.rsus[u][k] : k \in DOMAIN rec.rsus[u]}
\* Unit ids in ascending (lexicographic) order.
RsuAscending == <<"u0", "u1">>

\* C1 (as claimed): in every membership record flushed, no vehicle id is in
\* the lists of two different unit ids.
C1_Partition ==
  \A i \in DOMAIN membership_f : \A u \in RsuIds, w \in RsuIds :
     u # w => Listed(membership_f[i], u) \cap Listed(membership_f[i], w) = {}

\* The unit with the maximum connected time of vehicle v among the units it
\* has a sample at, the first in ascending id order among those that tie.
Winner(samples, v) ==
  LET own == OfVeh(samples, v)
      time(u) == DtSum(AtUnit(own, u))
      cand == {j \in DOMAIN RsuAscending : AtUnit(own, RsuAscending[j]) # {}}
      k == CHOOSE j \in cand :
             /\ \A l \in cand : time(RsuAscending[l]) <= time(RsuAscending[j])
             /\ \A l \in cand :
                  l < j => time(RsuAscending[l]) < time(RsuAscending[j])
  IN RsuAscending[k]

\* C2 (as claimed): at flush every vehicle with an in-range sample in the
\* round is listed under exactly the unit of its maximum connected time, the
\* lexicographically smallest among tied units.
C2_WinnerTakeMost ==
  \A i \in DOMAIN membership_f :
    \A v \in Vehs(InRange(audit[i].samples)) : \A u \in RsuIds :
       v \in Listed(membership_f[i], u) <=> u = Winner(audit[i].samples, v)

\* C3 (as claimed): the flushed round indices have no gap, and when the run
\* has completed every round from the first that received a batch to the last
\* has been flushed exactly once.
C3_Completeness ==
  /\ \A i \in DOMAIN membership_f :
       i > 1 => membership_f[i].round = membership_f[i - 1].round + 1
  /\ (pc = "done" /\ membership_f # << >>) =>
       \A r \in membership_f[1].round .. current_round :
          Cardinality({i \in DOMAIN membership_f : membership_f[i].round = r}) = 1

\* C4: the round indices of successive membership records and of successive
\* round-summary rows are strictly increasing, so no round is flushed twice.
C4_StrictlyIncreasing ==
  /\ \A i \in DOMAIN membership_f, j \in DOMAIN membership_f :
       i < j => membership_f[i].round < membership_f[j].round
  /\ \A i \in DOMAIN round_summary_f, j \in DOMAIN round_summary_f :
       i < j => round_summary_f[i].round < round_summary_f[j].round

\* C4 witness: two rounds have been flushed.
C4_Witness == Len(membership_f) >= 2 /\ Len(round_summary_f) >= 2

\* Number of records of a file that carry round index r.
CountRound(file, r) == Cardinality({i \in DOMAIN file : file[i].round = r})

\* C5: when run() has returned normally, the round open at the end of the
\* stream has been flushed exactly once, as the last record of each file; and
\* if no batch was received nothing has been flushed.
C5_FinalFlush ==
  pc = "done" =>
    IF batches = 0
    THEN membership_f = << >> /\ rsu_stats_f = << >> /\ round_summary_f = << >>
    ELSE /\ membership_f # << >>
         /\ membership_f[Len(membership_f)] = MembershipPayload(RoundOf(prev_t))
         /\ round_summary_f[Len(round_summary_f)] = RoundRow(RoundOf(prev_t))
         /\ CountRound(membership_f, RoundOf(prev_t)) = 1
         /\ CountRound(round_summary_f, RoundOf(prev_t)) = 1
         /\ CountRound(rsu_stats_f, RoundOf(prev_t)) = Len(RSUS)

\* C5 witness: the run completed in a partial trailing round that holds a
\* connected vehicle, after an earlier round was flushed.
C5_Witness ==
  /\ pc = "done"
  /\ Len(membership_f) >= 2
  /\ prev_t < (RoundOf(prev_t) + 1) * ROUND_LENGTH - 1
  /\ round_unique_connected # {}

\* C6 (as claimed): when the mobility source fails while a round that has
\* received an observation is open, that round has been flushed.
C6_FlushOnFailure ==
  (pc = "failed" /\ round_samples # {}) =>
     /\ CountRound(membership_f, RoundOf(prev_t)) = 1
     /\ CountRound(round_summary_f, RoundOf(prev_t)) = 1

\* The accumulators agree with a set of samples and nothing else.
AccFrom(samples, a) ==
  /\ a.round_unique_seen = Vehs(samples)
  /\ a.round_unique_connected = Vehs(InRange(samples))
  /\ a.round_uncovered_vehicle_time = DtSum(AtUnit(samples, NoRsu))
  /\ \A u \in RsuIds :
       /\ a.round_membership[u] = Vehs(AtUnit(samples, u))
       /\ a.rsu_conn_time[u] = DtSum(AtUnit(samples, u))
       /\ a.rsu_dist_count[u] = Cardinality(AtUnit(samples, u))
       /\ a.rsu_dist_sum[u] =
            SumOver(AtUnit(samples, u), [s \in samples |-> s.d])
       /\ a.rsu_dist_min[u] = MinOver(AtUnit(samples, u), [s \in samples |-> s.d], Inf)
       /\ a.rsu_dist_max[u] = MaxOver(AtUnit(samples, u), [s \in samples |-> s.d], 0)
       /\ a.rsu_handover_in[u] =
            Cardinality({s \in AtUnit(samples, u) : s.prev \notin {NoRsu, u}})
       /\ a.rsu_handover_out[u] =
            Cardinality({s \in InRange(samples) : s.prev = u /\ s.rsu # u})

\* C7: the accumulators hold the contributions of exactly the samples taken
\* since the open round's first batch, all of them at times of that round;
\* and every record flushed for round r is made of exactly the samples of one
\* round, all taken at times t with floor(t / ROUND_LENGTH) = r.
C7_RoundIsolation ==
  /\ pc = "loop" => AccFrom(round_samples, Acc)
  /\ \A s \in round_samples : RoundOf(s.t) = current_round
  /\ \A i \in DOMAIN membership_f :
       /\ audit[i].round = membership_f[i].round
       /\ \A s \in audit[i].samples : RoundOf(s.t) = membership_f[i].round
       /\ \A u \in RsuIds :
            Listed(membership_f[i], u) = Vehs(AtUnit(audit[i].samples, u))
       /\ \A k \in DOMAIN RSUS :
            LET row == rsu_stats_f[(i - 1) * Len(RSUS) + k]
                own == AtUnit(audit[i].samples, RSUS[k].id)
            IN /\ row.round = membership_f[i].round
               /\ row.rsu_id = RSUS[k].id
               /\ row.unique_vehicles = Cardinality(Vehs(own))
               /\ row.total_connected_time_s = DtSum(own)
       /\ round_summary_f[i].round = membership_f[i].round
       /\ round_summary_f[i].unique_vehicles_seen
            = Cardinality(Vehs(audit[i].samples))
       /\ round_summary_f[i].uncovered_vehicle_time_s
            = DtSum(AtUnit(audit[i].samples, NoRsu))

\* C7 witness: a round with a connected vehicle was flushed and the batch that
\* closed it folded a sample of the same vehicle into the new round.
C7_Witness ==
  /\ pc = "loop"
  /\ membership_f # << >>
  /\ \E v \in Veh :
       /\ v \in Vehs(InRange(audit[Len(audit)].samples))
       /\ v \in Vehs(round_samples)
       /\ Cardinality(round_batches) = 1

\* C8 (as claimed): the connected time credited to a vehicle in the open
\* round, summed over all units, never exceeds the duration of a round window.
C8_TimeBound ==
  \A v \in Veh : DtSum(InRange(OfVeh(round_samples, v))) <= ROUND_LENGTH

\* C9: in every flushed round the union of the membership lists is the set of
\* vehicles with an in-range sample in the round, and the connected count is
\* the size of that set.
C9_MembershipCoverage ==
  \A i \in DOMAIN membership_f :
    /\ UNION {Listed(membership_f[i], u) : u \in RsuIds}
         = Vehs(InRange(audit[i].samples))
    /\ round_summary_f[i].unique_connected_vehicles
         = Cardinality(Vehs(InRange(audit[i].samples)))

\* C9 witness: a flushed round in which one vehicle was connected and another
\* was seen out of range only.
C9_Witness ==
  \E i \in DOMAIN membership_f :
    /\ Vehs(InRange(audit[i].samples)) # {}
    /\ Vehs(audit[i].samples) \ Vehs(InRange(audit[i].samples)) # {}

\* Vehicle v was active in every batch of the audited round and out of range
\* of every unit at each of them.
FullyUncovered(a, v) ==
  /\ a.batches # {}
  /\ \A b \in a.batches : v \in b.ids
  /\ InRange(OfVeh(a.samples, v)) = {}

\* Time of the last batch of the audited round.
LastT(a) == CHOOSE t \in {b.t : b \in a.batches} : \A b \in a.batches : b.t <= t

\* C10 (as claimed): a fully uncovered vehicle is counted as seen, not as
\* connected, and contributes the whole duration of the round window to the
\* uncovered time, in every round closed by a later batch, the first included.
C10_FullWindowUncovered ==
  \A i \in DOMAIN membership_f : \A v \in Veh :
    (FullyUncovered(audit[i], v) /\ (pc = "done" => i < Len(membership_f))) =>
       DtSum(OfVeh(audit[i].samples, v)) = ROUND_LENGTH

\* C10 (amended): a fully uncovered vehicle is counted as seen, not as
\* connected, and contributes to the round's uncovered time the sum of the
\* round's dt, which is the time from the last batch before the round (in the
\* first round: from the run's first batch) to the round's last batch.
C10_UncoveredSinceLastBatch ==
  \A i \in DOMAIN membership_f : \A v \in Veh :
    FullyUncovered(audit[i], v) =>
       /\ v \in Vehs(audit[i].samples)
       /\ round_summary_f[i].unique_vehicles_seen
            = Cardinality(Vehs(audit[i].samples))
       /\ v \notin Vehs(InRange(audit[i].samples))
       /\ round_summary_f[i].unique_connected_vehicles
            = Cardinality(Vehs(InRange(audit[i].samples)))
       /\ round_summary_f[i].uncovered_vehicle_time_s
            = DtSum(AtUnit(audit[i].samples, NoRsu))
       /\ DtSum(OfVeh(audit[i].samples, v)) = LastT(audit[i]) - audit[i].base_t

\* C10 witness: the first round, with two batches, and a later round have
\* been flushed, each with a fully uncovered vehicle.
C10_Witness ==
  /\ Len(membership_f) >= 2
  /\ Cardinality(audit[1].batches) >= 2
  /\ \E v \in Veh : FullyUncovered(audit[1], v)
  /\ \E v \in Veh :
       /\ FullyUncovered(audit[2], v)
       /\ DtSum(OfVeh(audit[2].samples, v)) > 0

\* The per-unit rows analyse_membership writes for the membership log `file`
\* from record i on, with prev the assignment carried into record i.
RECURSIVE AnalyzedRows(_, _, _)
AnalyzedRows(file, i, prev) ==
  IF i > Len(file) THEN << >>
  ELSE LET res == AnProcess(file[i], << >>, prev)
       IN res.rsu_rows \o AnalyzedRows(file, i + 1, res.prev_assign)

\* Every vehicle has one nearest-unit result (a unit or none) at all of its
\* samples of each flushed round.
StableWithinRounds ==
  \A i \in DOMAIN audit : \A s \in audit[i].samples, q \in audit[i].samples :
     s.veh = q.veh => s.rsu = q.rsu

\* C11 (as claimed): when every vehicle's nearest-unit result is the same at
\* all of its samples within each round, the handover_in and handover_out that
\* the analyzer reconstructs from the membership log equal, row by row, the
\* counts the logger wrote inline for the same round and unit.
C11_OfflineInlineConsistency ==
  StableWithinRounds =>
    \E rows \in {AnalyzedRows(membership_f, 1, << >>)} :
      /\ Len(rows) = Len(rsu_stats_f)
      /\ \A k \in DOMAIN rsu_stats_f :
           /\ rows[k].round = rsu_stats_f[k].round
           /\ rows[k].rsu_id = rsu_stats_f[k].rsu_id
           /\ rows[k].handover_in = rsu_stats_f[k].handover_in
           /\ rows[k].handover_out = rsu_stats_f[k].handover_out

\* A JSON number, and a number greater than 0.
IsNumber(v) == v.type \in {"int", "float", "nan"}
IsPositive(v) == v.type \in {"int", "float"} /\ v.val > 0

\* The fields of an entry that violate the registry format.
BadFields(cfg) ==
  {k \in {"x", "y", "radius"} :
     \/ k \notin DOMAIN cfg.fields
     \/ ~IsNumber(cfg.fields[k])
     \/ k = "radius" /\ ~IsPositive(cfg.fields[k])}

EntryValid(cfg) == cfg.type = "object" /\ BadFields(cfg) = {}

RegistryValid(rsus) ==
  /\ rsus.type = "object"
  /\ rsus.items # << >>
  /\ \A i \in DOMAIN rsus.items : EntryValid(rsus.items[i].cfg)

\* C12 (as claimed): load_and_validate_rsus returns the registry unchanged
\* if and only if it is a non-empty object whose entries are objects with
\* numeric x, y, radius and radius > 0; otherwise it raises an error that
\* names an offending unit id and field, and run() is never started.
C12_RegistryValidation ==
  reg_call.out.kind # "pending" =>
    /\ reg_call.out.kind = "returned" <=> RegistryValid(reg_call.in)
    /\ reg_call.out.kind = "returned" => reg_call.out.value = reg_call.in
    /\ reg_call.out.kind = "raised" =>
         /\ pc = "failed" /\ batches = 0
         /\ (reg_call.in.type = "object" /\ reg_call.in.items # << >>) =>
              \E i \in DOMAIN reg_call.in.items :
                 /\ reg_call.in.items[i].id = reg_call.out.id
                 /\ ~EntryValid(reg_call.in.items[i].cfg)
                 /\ reg_call.in.items[i].cfg.type = "object" =>
                      reg_call.out.field \in BadFields(reg_call.in.items[i].cfg)

\* The stats log with a full record for every round.
FullStats ==
  load_stats_by_round(StatsFileOf([r \in 0..(MaxLines - 1) |-> "full"], 0))

\* The per-unit rows and the carried assignment after the analyzer has read
\* `file` from record i on with the stats by_round.
RECURSIVE AnRun(_, _, _, _, _)
AnRun(by_round, file, i, prev, rows) ==
  IF i > Len(file) THEN [rsu_rows |-> rows, prev_assign |-> prev]
  ELSE LET res == AnProcess(file[i], by_round, prev)
       IN AnRun(by_round, file, i + 1, res.prev_assign, rows \o res.rsu_rows)

\* The scalar `field` of round r in the stats, empty when the round or the
\* field is absent.
StatsCell(r, field) ==
  IF r \in DOMAIN stats_by_round /\ field \in DOMAIN stats_by_round[r]
  THEN stats_by_round[r][field] ELSE EmptyCell

\* The connected time of unit u in round r in the stats, or empty.
StatsTime(r, u) ==
  IF /\ r \in DOMAIN stats_by_round
     /\ "rsu_total_connected_time_s" \in DOMAIN stats_by_round[r]
     /\ u \in DOMAIN stats_by_round[r].rsu_total_connected_time_s
  THEN stats_by_round[r].rsu_total_connected_time_s[u] ELSE EmptyCell

\* C13: the analyzer never aborts on a round absent from the stats log or on
\* a stats record that lacks a field; for every record read it has written
\* one round-summary row and one row per unit, with the missing scalars
\* empty, and its handover columns and carried assignment are those of a run
\* on the same membership records with full stats.
C13_TolerantRead ==
  /\ an_pc # "failed"
  /\ Len(an_round_rows) = Len(an_read)
  /\ Len(an_rsu_rows) = Len(an_read) * Len(RsuKeys)
  /\ \A i \in DOMAIN an_read :
       /\ an_round_rows[i].round = an_read[i].round
       /\ an_round_rows[i].vehicles_seen_count
            = StatsCell(an_read[i].round, "vehicles_seen_count")
       /\ an_round_rows[i].vehicles_connected_count
            = StatsCell(an_read[i].round, "vehicles_connected_count")
       /\ an_round_rows[i].uncovered_vehicle_time_s
            = StatsCell(an_read[i].round, "uncovered_vehicle_time_s")
       /\ \A k \in DOMAIN RsuKeys :
            LET row == an_rsu_rows[(i - 1) * Len(RsuKeys) + k]
            IN /\ row.round = an_read[i].round
               /\ row.rsu_id = RsuKeys[k]
               /\ row.total_connected_time_s
                    = StatsTime(an_read[i].round, RsuKeys[k])
  /\ \E full \in {AnRun(FullStats, an_read, 1, << >>, << >>)} :
       /\ prev_assign = full.prev_assign
       /\ \A k \in DOMAIN an_rsu_rows :
            /\ an_rsu_rows[k].unique_vehicles = full.rsu_rows[k].unique_vehicles
            /\ an_rsu_rows[k].handover_in = full.rsu_rows[k].handover_in
            /\ an_rsu_rows[k].handover_out = full.rsu_rows[k].handover_out

\* C13 witness: the analyzer finished after reading a record whose round is
\* absent from the stats, in which a handover was counted, and a record whose
\* stats lack fields.
C13_Witness ==
  /\ an_pc = "done"
  /\ \E i \in DOMAIN an_read :
       /\ an_read[i].round \notin DOMAIN stats_by_round
       /\ an_round_rows[i].vehicles_seen_count = EmptyCell
       /\ \E k \in DOMAIN RsuKeys :
            an_rsu_rows[(i - 1) * Len(RsuKeys) + k].handover_in > 0
  /\ \E j \in DOMAIN an_read :
       /\ an_read[j].round \in DOMAIN stats_by_round
       /\ "vehicles_seen_count" \notin DOMAIN stats_by_round[an_read[j].round]
       /\ an_round_rows[j].vehicles_connected_count # EmptyCell

\* C14: assign_disjoint_bundles raises exactly when len(veh_ids) *
\* bundle_size > dataset_size; otherwise, whatever the shuffle order, every
\* vehicle gets exactly bundle_size different indices of [0, dataset_size)
\* and no index is in the bundles of two vehicles.
C14_DisjointBundles ==
  bundle_call.out.kind # "pending" =>
    LET veh_ids == bundle_call.in.veh_ids
        n == bundle_call.in.dataset_size
        b == bundle_call.in.bundle_size
        out == bundle_call.out
    IN /\ out.kind = "raised" <=> Len(veh_ids) * b > n
       /\ out.kind = "returned" =>
            /\ DOMAIN out.bundles = SeqRange(veh_ids)
            /\ \A v \in DOMAIN out.bundles :
                 /\ Len(out.bundles[v]) = b
                 /\ Cardinality(SeqRange(out.bundles[v])) = b
                 /\ SeqRange(out.bundles[v]) \subseteq 0..(n - 1)
            /\ \A v \in DOMAIN out.bundles, w \in DOMAIN out.bundles :
                 v # w => SeqRange(out.bundles[v]) \cap SeqRange(out.bundles[w]) = {}

\* C14 witness: two vehicles got bundles of two indices each that use the
\* whole dataset, from a shuffle that is not the identity.
C14_Witness ==
  /\ bundle_call.out.kind = "returned"
  /\ Len(bundle_call.in.veh_ids) = 2
  /\ bundle_call.in.bundle_size = 2
  /\ bundle_call.in.dataset_size = 4
  /\ bundle_call.out.bundles["A"] = << 3, 1 >>
  /\ bundle_call.out.bundles["B"] = << 0, 2 >>

\* C14 witness of the error: more indices are needed than the dataset has.
C14_WitnessRaised ==
  /\ bundle_call.out.kind = "raised"
  /\ Len(bundle_call.in.veh_ids) * bundle_call.in.bundle_size
       = bundle_call.in.dataset_size + 1

\* The distance from the position of the call to the i-th unit of its
\* registry, and the indices of the units in range (boundary included).
PickDist(i) ==
  distance(pick_call.in.p, <<pick_call.in.reg[i].x, pick_call.in.reg[i].y>>)
PickCandidates ==
  {i \in DOMAIN pick_call.in.reg : PickDist(i) <= pick_call.in.reg[i].radius}
PickNearest ==
  {i \in PickCandidates : \A j \in PickCandidates : PickDist(i) <= PickDist(j)}

\* C15: pick_closest_rsu returns none exactly when no unit has distance <=
\* its radius; otherwise it returns a unit in range whose distance is minimal
\* among the units in range, with that distance.
C15_ProximitySelection ==
  pick_call.out.kind = "returned" =>
    /\ pick_call.out.rsu = NoRsu <=> PickCandidates = {}
    /\ pick_call.out.rsu = NoRsu => pick_call.out.d = NoneNum
    /\ pick_call.out.rsu # NoRsu =>
         \E i \in PickNearest :
            /\ pick_call.in.reg[i].id = pick_call.out.rsu
            /\ PickDist(i) = pick_call.out.d

\* C15 witness: a unit was returned at exactly its radius while a nearer
\* unit, out of its own smaller range, was passed over.
C15_Witness ==
  /\ pick_call.out.kind = "returned"
  /\ pick_call.out.rsu # NoRsu
  /\ \E i \in PickNearest :
       /\ pick_call.in.reg[i].id = pick_call.out.rsu
       /\ PickDist(i) = pick_call.in.reg[i].radius
  /\ \E j \in DOMAIN pick_call.in.reg :
       /\ j \notin PickCandidates
       /\ PickDist(j) < pick_call.out.d

\* C20: when units in range are at the minimum distance, pick_closest_rsu
\* returns the one of them that comes first in the registry's order.
C20_TieBreak ==
  (pick_call.out.kind = "returned" /\ PickCandidates # {}) =>
    \E i \in PickNearest :
       /\ \A j \in PickNearest : i <= j
       /\ pick_call.out.rsu = pick_call.in.reg[i].id

\* The position of a unit id in ascending (lexicographic) id order.
IdRank(id) == CHOOSE k \in DOMAIN UnitPool : UnitPool[k].id = id

\* C20 witness: two units in range tie at the minimum distance and the unit
\* returned, the first in registry order, is not the lowest id of the two.
C20_Witness ==
  /\ pick_call.out.kind = "returned"
  /\ Cardinality(PickNearest) >= 2
  /\ \E i \in PickNearest, j \in PickNearest :
       /\ i < j
       /\ pick_call.out.rsu = pick_call.in.reg[i].id
       /\ IdRank(pick_call.in.reg[j].id) < IdRank(pick_call.in.reg[i].id)

\* Every sample processed so far, in flushed rounds and in the open round.
AllSamples == UNION {audit[i].samples : i \in DOMAIN audit} \cup round_samples

\* The nearest-unit result of vehicle v at its last sample of `all` before
\* time t, none if it has no earlier sample.
PrevResult(all, v, t) ==
  LET earlier == {q \in all : q.veh = v /\ q.t < t}
  IN IF earlier = {} THEN NoRsu
     ELSE (CHOOSE q \in earlier : \A w \in earlier : w.t <= q.t).rsu

\* The samples of a set at which a vehicle changed from unit `from` to
\* another unit, and those at which it changed from another unit to unit `to`,
\* prev being the result of its preceding sample.
ChangesFrom(samples, from) ==
  {s \in samples : s.prev = from /\ s.rsu # NoRsu /\ s.rsu # from}
ChangesTo(samples, to) ==
  {s \in samples : s.rsu = to /\ s.prev # NoRsu /\ s.prev # to}

\* C16: the result the logger compares a sample with is the result of the
\* vehicle's immediately preceding sample, of whatever round; the open
\* round's handover_out and handover_in of a unit count exactly the samples of
\* the round at which a vehicle changed from that unit to another unit, or
\* from another unit to that unit, and so do the rows flushed; a change from
\* or to none counts nothing.
C16_InlineHandover ==
  /\ \E all \in {AllSamples} :
       \A s \in all : s.prev = PrevResult(all, s.veh, s.t)
  /\ \A u \in RsuIds :
       /\ rsu_handover_out[u] = Cardinality(ChangesFrom(round_samples, u))
       /\ rsu_handover_in[u] = Cardinality(ChangesTo(round_samples, u))
  /\ \A i \in DOMAIN audit : \A k \in DOMAIN RSUS :
       LET row == rsu_stats_f[(i - 1) * Len(RSUS) + k]
       IN /\ row.handover_out
               = Cardinality(ChangesFrom(audit[i].samples, RSUS[k].id))
          /\ row.handover_in
               = Cardinality(ChangesTo(audit[i].samples, RSUS[k].id))

\* C16 witness: a handover is counted in the open round for a sample whose
\* preceding sample belongs to a round already flushed.
C16_Witness ==
  /\ pc = "loop"
  /\ audit # << >>
  /\ \E s \in round_samples :
       /\ s.prev # NoRsu /\ s.rsu # NoRsu /\ s.prev # s.rsu
       /\ rsu_handover_in[s.rsu] = 1
       /\ rsu_handover_out[s.prev] = 1
       /\ \E q \in audit[Len(audit)].samples : q.veh = s.veh /\ q.rsu = s.prev
       /\ \A q \in round_samples : q.veh = s.veh => q.t >= s.t

\* A vehicle went from one unit to none to another unit and no handover is
\* counted at its last sample.
C16_ThroughNone ==
  \E s \in round_samples : \E q \in AllSamples : \E w \in AllSamples :
     /\ s.veh = q.veh /\ q.veh = w.veh
     /\ w.t < q.t /\ q.t < s.t
     /\ w.rsu = "u0" /\ q.rsu = NoRsu /\ s.rsu = "u1"
     /\ rsu_handover_in["u1"] = 0

\* The unit a membership record lists vehicle v under, none if it lists v
\* under no unit.
Assigned(rec, v) ==
  IF \E u \in RsuIds : v \in Listed(rec, u)
  THEN CHOOSE u \in RsuIds : v \in Listed(rec, u)
  ELSE NoRsu

\* The vehicles that record i lists under a unit other than the unit the
\* record before lists them under.
Movers(i) ==
  IF i = 1 THEN {}
  ELSE {v \in Veh : /\ Assigned(an_read[i - 1], v) # NoRsu
                    /\ Assigned(an_read[i], v) # NoRsu
                    /\ Assigned(an_read[i - 1], v) # Assigned(an_read[i], v)}

\* C17: in the rows the analyzer writes for a membership record, handover_out
\* of a unit is the number of vehicles the previous record lists under that
\* unit and this record lists under a different unit, and handover_in of a
\* unit the number this record lists under it and the previous record under
\* a different unit; a vehicle listed in only one of the two records counts
\* nothing and the rows of the first record are all zero.
C17_OfflineHandover ==
  \A i \in DOMAIN an_read : \A k \in DOMAIN RsuKeys :
     LET row == an_rsu_rows[(i - 1) * Len(RsuKeys) + k]
     IN /\ row.handover_out =
             Cardinality({v \in Movers(i) : Assigned(an_read[i - 1], v) = RsuKeys[k]})
        /\ row.handover_in =
             Cardinality({v \in Movers(i) : Assigned(an_read[i], v) = RsuKeys[k]})

\* C17 witness: in the second record one vehicle has moved from u0 to u1 and
\* is counted once on each side, and the other, listed under u1 before, is
\* no longer listed and counts nothing.
C17_Witness ==
  /\ Len(an_read) = 2
  /\ Assigned(an_read[1], "A") = "u0" /\ Assigned(an_read[2], "A") = "u1"
  /\ Assigned(an_read[1], "B") = "u1" /\ Assigned(an_read[2], "B") = NoRsu
  /\ an_rsu_rows[3].handover_out = 1 /\ an_rsu_rows[3].handover_in = 0
  /\ an_rsu_rows[4].handover_out = 0 /\ an_rsu_rows[4].handover_in = 1

\* C18: every handover the analyzer counts is of a vehicle listed under a
\* unit in the record just before and under another unit in the record being
\* read, so a vehicle that was absent from the record just before counts
\* nothing when it reappears, and none when it disappears; the assignment
\* carried forward is that of the last record read, none for the vehicles it
\* does not list.
C18_AbsentDropped ==
  /\ \A e \in an_events :
       /\ e.i > 1
       /\ e.from # NoRsu /\ e.to # NoRsu
       /\ Assigned(an_read[e.i - 1], e.veh) = e.from
       /\ Assigned(an_read[e.i], e.veh) = e.to
  /\ \A i \in DOMAIN an_read : \A k \in DOMAIN RsuKeys :
       LET row == an_rsu_rows[(i - 1) * Len(RsuKeys) + k]
       IN /\ row.handover_in =
               Cardinality({e \in an_events : e.i = i /\ e.to = RsuKeys[k]})
          /\ row.handover_out =
               Cardinality({e \in an_events : e.i = i /\ e.from = RsuKeys[k]})
  /\ \A v \in DOMAIN prev_assign :
       prev_assign[v] = Assigned(an_read[Len(an_read)], v)

\* C18 witness: a vehicle listed under u0, then in no list, then under u1:
\* no handover of it is counted and the rows of the last record are zero.
C18_Witness ==
  /\ Len(an_read) = 3
  /\ Assigned(an_read[1], "A") = "u0"
  /\ Assigned(an_read[2], "A") = NoRsu
  /\ Assigned(an_read[3], "A") = "u1"
  /\ \A e \in an_events : e.veh # "A"
  /\ an_rsu_rows[5].handover_out = 0
  /\ an_rsu_rows[6].handover_in = 0

\* C19 (as claimed): a vehicle with no sample in the round flushed last (the
\* round before the open one) has reverted to none, so its first sample in
\* the open round produces no handover.
C19_StaleDropped ==
  audit # << >> =>
    \A s \in round_samples :
       OfVeh(audit[Len(audit)].samples, s.veh) = {} =>
         \/ ~IsHandover(s.prev, s.rsu)
         \/ \E q \in round_samples : q.veh = s.veh /\ q.t < s.t

\* The vehicle-time of a set of batches: dt times the number of vehicles
\* active in the batch, summed over the batches.
VehicleTime(bs) == SumOver(bs, [b \in bs |-> b.dt * Cardinality(b.ids)])

\* Every batch received so far, in flushed rounds and in the open round.
AllBatches == UNION {audit[i].batches : i \in DOMAIN audit} \cup round_batches

\* The connected time of the rows written for the i-th flushed round, summed
\* over the units.
ConnectedTotal(i) ==
  SumOver(DOMAIN RSUS,
          [k \in DOMAIN RSUS |->
             rsu_stats_f[(i - 1) * Len(RSUS) + k].total_connected_time_s])

\* C21: the dt of a batch is credited once for each active vehicle, to the
\* connected time of the unit selected for it or to the uncovered time; so in
\* every flushed round, and in the open round between batches, the connected
\* time summed over the units plus the uncovered vehicle-time is the sum over
\* the round's batches of dt times the number of active vehicles; dt is 0 at
\* the first batch of the run and is never negative.
C21_TimeConservation ==
  /\ \A i \in DOMAIN audit :
       /\ \A b \in audit[i].batches : \A v \in b.ids :
            Cardinality({s \in audit[i].samples :
                           s.veh = v /\ s.t = b.t /\ s.dt = b.dt}) = 1
       /\ \A k \in DOMAIN RSUS :
            rsu_stats_f[(i - 1) * Len(RSUS) + k].total_connected_time_s
              = DtSum(AtUnit(audit[i].samples, RSUS[k].id))
       /\ round_summary_f[i].uncovered_vehicle_time_s
            = DtSum(AtUnit(audit[i].samples, NoRsu))
       /\ ConnectedTotal(i) + round_summary_f[i].uncovered_vehicle_time_s
            = VehicleTime(audit[i].batches)
  /\ pc # "failed" =>
       SumOver(RsuIds, rsu_conn_time) + round_uncovered_vehicle_time
         = VehicleTime(round_batches)
  /\ \A b \in AllBatches :
       /\ b.dt >= 0
       /\ (\A c \in AllBatches : b.t <= c.t) => b.dt = 0

\* C21 witness: a round was flushed that has a batch with dt > 0 and two
\* active vehicles, one credited to a unit and one to the uncovered time.
C21_Witness ==
  \E i \in DOMAIN audit :
    /\ \E b \in audit[i].batches : b.dt > 0 /\ Cardinality(b.ids) = 2
    /\ round_summary_f[i].uncovered_vehicle_time_s > 0
    /\ ConnectedTotal(i) > 0
    /\ \E s \in audit[i].samples, q \in audit[i].samples :
         /\ s.t = q.t /\ s.dt > 0
         /\ s.rsu = NoRsu /\ q.rsu # NoRsu

\* The handovers analyse_membership counts for the membership log `file` from
\* record i on, with prev the assignment carried into record i.
RECURSIVE AnalyzedEvents(_, _, _)
AnalyzedEvents(file, i, prev) ==
  IF i > Len(file) THEN {}
  ELSE LET res == AnProcess(file[i], << >>, prev)
       IN {[i |-> i, veh |-> e.veh, from |-> e.from, to |-> e.to]
             : e \in res.events}
          \cup AnalyzedEvents(file, i + 1, res.prev_assign)

\* The sum over the units of a column of the rows written for the i-th round
\* of a per-unit file.
HandoverInTotal(rows, i) ==
  SumOver(DOMAIN RSUS,
          [k \in DOMAIN RSUS |-> rows[(i - 1) * Len(RSUS) + k].handover_in])
HandoverOutTotal(rows, i) ==
  SumOver(DOMAIN RSUS,
          [k \in DOMAIN RSUS |-> rows[(i - 1) * Len(RSUS) + k].handover_out])

\* C22: in every round the logger has flushed, and in every round the
\* analyzer writes for the membership log the logger has written, the
\* handover_in summed over the units equals the handover_out summed over the
\* units; every handover counted is a change from one unit to a different
\* unit, counted once in the handover_out of the first and once in the
\* handover_in of the second.
C22_HandoverConservation ==
  /\ \A i \in DOMAIN audit :
       /\ HandoverInTotal(rsu_stats_f, i) = HandoverOutTotal(rsu_stats_f, i)
       /\ \A k \in DOMAIN RSUS :
            LET row == rsu_stats_f[(i - 1) * Len(RSUS) + k]
                u == RSUS[k].id
            IN /\ row.handover_in =
                    Cardinality({s \in audit[i].samples :
                                   s.rsu = u /\ s.prev \in RsuIds \ {u}})
               /\ row.handover_out =
                    Cardinality({s \in audit[i].samples :
                                   s.prev = u /\ s.rsu \in RsuIds \ {u}})
  /\ \E rows \in {AnalyzedRows(membership_f, 1, << >>)} :
     \E events \in {AnalyzedEvents(membership_f, 1, << >>)} :
       /\ \A e \in events : e.from \in RsuIds /\ e.to \in RsuIds /\ e.from # e.to
       /\ \A i \in DOMAIN membership_f :
            /\ HandoverInTotal(rows, i) = HandoverOutTotal(rows, i)
            /\ \A k \in DOMAIN RSUS :
                 LET row == rows[(i - 1) * Len(RSUS) + k]
                 IN /\ row.handover_in =
                         Cardinality({e \in events :
                                        e.i = i /\ e.to = RSUS[k].id})
                    /\ row.handover_out =
                         Cardinality({e \in events :
                                        e.i = i /\ e.from = RSUS[k].id})

\* C22 witness: the logger has flushed a round in which it counted a
\* handover, and the analyzer counts a handover in a round of the same log.
C22_Witness ==
  /\ \E i \in DOMAIN audit : HandoverInTotal(rsu_stats_f, i) >= 1
  /\ \E i \in DOMAIN membership_f :
       HandoverOutTotal(AnalyzedRows(membership_f, 1, << >>), i) >= 1

====
